---- MODULE Spec2Model ----
(***************************************************************************)
(* A model of arecs.py: the academic-record crawler.  One run of the       *)
(* script is: the module-level credentials import, Crawler.login (login    *)
(* page GET, token extraction, login form POST), Crawler.parse_results     *)
(* (portal GET, results-link lookup, results page GET, table extraction),  *)
(* RecordHandler.calc_gpa and the output of Crawler.run.                   *)
(*                                                                         *)
(* Text is a sequence of one-character strings, so that strip, replace,    *)
(* split, float and int are computed on the characters as Python does.     *)
(* "nbsp" stands for the one character U+00A0 and "uuml" for U+00FC.       *)
(* A grade (a Python float) is kept in tenths: 2.0 is 20.                  *)
(***************************************************************************)
EXTENDS Integers, Sequences, FiniteSets

VARIABLES
    secrets,    \* the credentials file secrets.py: [file, USER, PASSWORD]
    prev,       \* "bootstrap": the previous run of the script created secrets.py; else "other"
    pc,         \* position of the current run
    net,        \* the requests issued by the current run, in order
    steps,      \* the pipeline steps the current run has begun, in order
    response,   \* the response the run is working on, [kind, ...]
    lt,         \* login(): the extracted token
    res_link,   \* parse_results(): the href of the results link
    results,    \* the list of Result objects
    gpa,        \* calc_gpa()'s value, [num, den] for num/(10*den); den = 0: not computed
    out,        \* the lines printed to stdout
    exitcode,   \* the process exit status, -1 while the run has not ended
    exc,        \* the uncaught exception that ended the run, or "none"
    hdrs,       \* permutation check: the header sequence H
    cells,      \* permutation check: the flat cell sequence
    perm,       \* permutation check: the permutation p of 1..Len(H)
    plain,      \* permutation check: the extraction outcome of (H, cells)
    permuted    \* permutation check: the extraction outcome of (p(H), p(cells))

vars == <<secrets, prev, pc, net, steps, response, lt, res_link, results, gpa,
          out, exitcode, exc, hdrs, cells, perm, plain, permuted>>

runVars == <<secrets, prev, pc, net, steps, response, lt, res_link, results, gpa,
             out, exitcode, exc>>

permVars == <<hdrs, cells, perm, plain, permuted>>

----------------------------------------------------------------------------
\* Bounds of the model.

\* the most table rows a results page holds
MaxRows == 2

\* the most table rows of a page in the permutation check
MaxPermRows == 2

\* the largest credit value the decoding of the credits cell is checked for
MaxCredit == 12

----------------------------------------------------------------------------
\* Text: Python's str operations on sequences of characters.

Digit == <<"0", "1", "2", "3", "4", "5", "6", "7", "8", "9">>

IsDigit(c) == \E d \in 1..10 : Digit[d] = c

DigitVal(c) == (CHOOSE d \in 1..10 : Digit[d] = c) - 1

\* str(n) for a non-negative integer
RECURSIVE Decimal(_)
Decimal(n) == IF n < 10 THEN <<Digit[n + 1]>>
              ELSE Decimal(n \div 10) \o <<Digit[(n % 10) + 1]>>

\* what str.strip() removes
IsSpace(c) == c \in {" ", "nbsp", "\n"}

RECURSIVE LStrip(_)
LStrip(s) == IF s # <<>> /\ IsSpace(Head(s)) THEN LStrip(Tail(s)) ELSE s

RECURSIVE RStrip(_)
RStrip(s) == IF s # <<>> /\ IsSpace(s[Len(s)]) THEN RStrip(SubSeq(s, 1, Len(s) - 1)) ELSE s

Strip(s) == RStrip(LStrip(s))

\* unicodedata.normalize("NFKD", s): U+00A0 becomes a space, U+00FC becomes u + U+0308
RECURSIVE Nfkd(_)
Nfkd(s) == IF s = <<>> THEN <<>>
           ELSE (CASE Head(s) = "nbsp" -> <<" ">>
                   [] Head(s) = "uuml" -> <<"u", "diaeresis">>
                   [] OTHER -> <<Head(s)>>) \o Nfkd(Tail(s))

\* s.replace(a, b) for single characters
Replace(s, a, b) == [i \in 1..Len(s) |-> IF s[i] = a THEN b ELSE s[i]]

\* s.split(sep) for a single character sep
\* (SplitFrom: the segments of s from position start on, scanning from i)
RECURSIVE SplitFrom(_, _, _, _)
SplitFrom(s, sep, i, start) ==
    IF i > Len(s) THEN <<SubSeq(s, start, Len(s))>>
    ELSE IF s[i] = sep THEN <<SubSeq(s, start, i - 1)>> \o SplitFrom(s, sep, i + 1, i + 1)
    ELSE SplitFrom(s, sep, i + 1, start)

Split(s, sep) == SplitFrom(s, sep, 1, 1)

AllDigits(s) == \A i \in 1..Len(s) : IsDigit(s[i])

RECURSIVE Number(_)
Number(s) == IF s = <<>> THEN 0 ELSE 10 * Number(SubSeq(s, 1, Len(s) - 1)) + DigitVal(s[Len(s)])

\* float(s) for the decimal notations digits, digits., .d and digits.d (at most one
\* fractional digit: the value is kept in tenths); anything else in the model's
\* alphabet is a ValueError.
IsFloat(s) ==
    LET p == Split(s, ".")
    IN  /\ Len(p) \in {1, 2}
        /\ AllDigits(p[1])
        /\ Len(p) = 2 => (Len(p[2]) <= 1 /\ AllDigits(p[2]))
        /\ p[1] # <<>> \/ (Len(p) = 2 /\ p[2] # <<>>)

Float(s) ==
    LET p == Split(s, ".")
    IN  10 * Number(p[1]) + (IF Len(p) = 2 THEN Number(p[2]) ELSE 0)

\* the outcome of a call: a value or a raised exception
Ok(v) == [ok |-> TRUE, val |-> v]

Raise(e) == [ok |-> FALSE, exc |-> e]

----------------------------------------------------------------------------
\* The strings of the program and of the portal's pages.

SEMESTER == <<"S", "e", "m", "e", "s", "t", "e", "r">>

PRUEFUNGSNAME == <<"P", "r", "uuml", "f", "u", "n", "g", "s", "n", "a", "m", "e">>

NOTE == <<"N", "o", "t", "e">>

ECTS == <<"E", "C", "T", "S">>

STATUS == <<"S", "t", "a", "t", "u", "s">>

\* a column the program does not read
VERMERK == <<"V", "e", "r", "m", "e", "r", "k">>

\* the Status cell of a passed exam and of a failed one
BESTANDEN == <<"b", "e", "s", "t", "a", "n", "d", "e", "n">>

NICHT_BESTANDEN == <<"n", "i", "c", "h", "t", " ">> \o BESTANDEN

\* the credits cell: '<!-- document.write(Math.round(X*10)/10); //-->' with X = n.0
EctsCell(n) ==
    <<"<", "!", "-", "-", " ", "d", "o", "c", "u", "m", "e", "n", "t", ".",
      "w", "r", "i", "t", "e", "(", "M", "a", "t", "h", ".",
      "r", "o", "u", "n", "d", "(">>
    \o Decimal(n)
    \o <<".", "0", "*", "1", "0", ")", "/", "1", "0", ")", ";", " ", "/", "/", "-", "-", ">">>

----------------------------------------------------------------------------
\* Result and RecordHandler.

\* Result.__init__
Result(semester, exam, grade, ects, passed) ==
    [semester |-> semester, exam |-> exam, grade |-> grade, ects |-> ects, passed |-> passed]

\* Python's truth value of a str: non-empty
Truthy(s) == s # <<>>

\* Result.__str__: the format chosen and the fields it prints
ResultStr(res) ==
    IF Truthy(res.passed)
    THEN [fmt |-> "passed", semester |-> res.semester, exam |-> res.exam,
          grade |-> res.grade, ects |-> res.ects]
    ELSE [fmt |-> "not yet passed", exam |-> res.exam]

\* calc_gpa's loop: the sums over the records res.passed is true of
RECURSIVE SumGrade(_)
SumGrade(rs) == IF rs = <<>> THEN 0
                ELSE (IF Truthy(Head(rs).passed) THEN Head(rs).grade * Head(rs).ects ELSE 0)
                     + SumGrade(Tail(rs))

RECURSIVE SumEcts(_)
SumEcts(rs) == IF rs = <<>> THEN 0
               ELSE (IF Truthy(Head(rs).passed) THEN Head(rs).ects ELSE 0)
                    + SumEcts(Tail(rs))

\* RecordHandler.calc_gpa: sum_grade / sum_ects, the quotient kept as a fraction
\* (num tenths over den)
calc_gpa(rs) ==
    IF SumEcts(rs) = 0 THEN Raise("ZeroDivisionError")
    ELSE Ok([num |-> SumGrade(rs), den |-> SumEcts(rs)])

\* print_exams: one line per record
print_exams(rs) == [i \in 1..Len(rs) |-> ResultStr(rs[i])]

----------------------------------------------------------------------------
\* Crawler: the pure parts.

\* re.findall('(LT-.*?)\"', text): the matches, leftmost first, each as short as
\* possible; '.' does not match a newline.
MatchEnd(text, i) ==
    IF /\ i + 2 <= Len(text)
       /\ text[i] = "L" /\ text[i + 1] = "T" /\ text[i + 2] = "-"
       /\ \E j \in (i + 3)..Len(text) :
              text[j] = "\"" /\ \A k \in (i + 3)..(j - 1) : text[k] # "\n"
    THEN CHOOSE j \in (i + 3)..Len(text) :
              /\ text[j] = "\""
              /\ \A k \in (i + 3)..(j - 1) : text[k] \notin {"\n", "\""}
    ELSE 0

RECURSIVE FindAllFrom(_, _)
FindAllFrom(text, i) ==
    IF i > Len(text) THEN <<>>
    ELSE IF MatchEnd(text, i) = 0 THEN FindAllFrom(text, i + 1)
    ELSE <<SubSeq(text, i, MatchEnd(text, i) - 1)>> \o FindAllFrom(text, MatchEnd(text, i) + 1)

findall(text) == FindAllFrom(text, 1)

\* Python's None, where a tag is expected
None == [text |-> "None", href |-> "none"]

\* (a variant of find that takes the first anchor with an href, whatever its text)
findAnyHref(anchors) ==
    LET hit == {i \in 1..Len(anchors) : anchors[i].href # "none"}
    IN  IF hit = {} THEN None
        ELSE anchors[CHOOSE i \in hit : \A j \in hit : i <= j]

\* soup.find('a', href=True, text='Notenspiegel'): the first such anchor, or None
find(anchors) ==
    LET hit == {i \in 1..Len(anchors) :
                    anchors[i].href # "none" /\ anchors[i].text = "Notenspiegel"}
    IN  IF hit = {} THEN None
        ELSE anchors[CHOOSE i \in hit : \A j \in hit : i <= j]

\* Crawler.strip
strip(text) == Nfkd(Strip(text))

\* Crawler.parse_ects, with the int() of its caller
parse_ects(ectss) ==
    LET seg == Split(ectss, ".")
    IN  IF Len(seg) < 3 THEN Raise("IndexError")
        ELSE IF seg[3] = <<>> THEN Raise("IndexError")
        ELSE Ok(seg[3][Len(seg[3])])

int(c) == IF c.ok THEN (IF IsDigit(c.val) THEN Ok(DigitVal(c.val)) ELSE Raise("ValueError"))
          ELSE c

\* list.index: the first position of x (from 1), 0 for the ValueError
index(lst, x) ==
    IF \E i \in 1..Len(lst) : lst[i] = x
    THEN CHOOSE i \in 1..Len(lst) : lst[i] = x /\ \A j \in 1..(i - 1) : lst[j] # x
    ELSE 0

\* (a variant of the lookup that reads a fixed column per field instead of the
\* label's position)
LookupFixed(elements, grade_lst, label) ==
    LET i == CASE label = SEMESTER      -> 1
               [] label = PRUEFUNGSNAME -> 2
               [] label = NOTE          -> 3
               [] label = ECTS          -> 4
               [] OTHER                 -> 5
    IN  IF index(elements, label) = 0 THEN Raise("ValueError")
        ELSE IF i > Len(grade_lst) THEN Raise("IndexError")
        ELSE Ok(grade_lst[i])

\* grade_lst[elements.index(label)]
Lookup(elements, grade_lst, label) ==
    LET i == index(elements, label)
    IN  IF i = 0 THEN Raise("ValueError")
        ELSE IF i > Len(grade_lst) THEN Raise("IndexError")
        ELSE Ok(grade_lst[i])

Min(a, b) == IF a < b THEN a ELSE b

\* (a variant of group with an off-by-one width: the slices lst[i:i+n+1] for i in
\* range(0, len(lst), n+1))
RECURSIVE GroupFromWide(_, _, _)
GroupFromWide(lst, n, i) ==
    IF i >= Len(lst) THEN <<>>
    ELSE <<SubSeq(lst, i + 1, Min(i + n + 1, Len(lst)))>> \o GroupFromWide(lst, n, i + n + 1)

\* group(lst, n): the slices lst[i:i+n] for i in range(0, len(lst), n)
RECURSIVE GroupFrom(_, _, _)
GroupFrom(lst, n, i) ==
    IF i >= Len(lst) THEN <<>>
    ELSE <<SubSeq(lst, i + 1, Min(i + n, Len(lst)))>> \o GroupFrom(lst, n, i + n)

group(lst, n) == IF n = 0 THEN Raise("ValueError") ELSE Ok(GroupFrom(lst, n, 0))

\* the body of the loop over res_tuples: one Result from one tuple, or the first
\* exception of the five lookups and conversions, in the order of the code
MakeResult(elements, tup) ==
    LET semester == Lookup(elements, tup, SEMESTER)
        exam     == Lookup(elements, tup, PRUEFUNGSNAME)
        note     == Lookup(elements, tup, NOTE)
        grade    == IF ~note.ok THEN note
                    ELSE IF IsFloat(Replace(note.val, ",", "."))
                         THEN Ok(Float(Replace(note.val, ",", ".")))
                         ELSE Raise("ValueError")
        cell     == Lookup(elements, tup, ECTS)
        ects     == IF ~cell.ok THEN cell ELSE int(parse_ects(cell.val))
        passed   == Lookup(elements, tup, STATUS)
    IN  IF ~semester.ok THEN semester
        ELSE IF ~exam.ok THEN exam
        ELSE IF ~grade.ok THEN grade
        ELSE IF ~ects.ok THEN ects
        ELSE IF ~passed.ok THEN passed
        ELSE Ok(Result(semester.val, exam.val, grade.val, ects.val, passed.val))

RECURSIVE MakeResults(_, _)
MakeResults(elements, tups) ==
    IF tups = <<>> THEN Ok(<<>>)
    ELSE LET r == MakeResult(elements, Head(tups))
         IN  IF ~r.ok THEN r
             ELSE LET rest == MakeResults(elements, Tail(tups))
                  IN  IF ~rest.ok THEN rest ELSE Ok(<<r.val>> \o rest.val)

\* parse_results from the parsed results page on (lines 106-126): th holds the
\* text of the th.Konto tags, td the text of the td.posrecords tags
Extract(th, td) ==
    LET elements    == [i \in 1..Len(th) |-> Strip(th[i])]
        raw_results == [i \in 1..Len(td) |-> strip(td[i])]
        res_tuples  == group(raw_results, Len(elements))
    IN  IF ~res_tuples.ok THEN res_tuples
        ELSE MakeResults(elements, res_tuples.val)

----------------------------------------------------------------------------
\* What the run can meet: the credentials file and the portal's answers.

\* secrets.py: missing ("absent"), present without the two names ("nonames"), or
\* defining USER and PASSWORD ("ok")
SecretsFiles ==
    {[file |-> f, USER |-> "", PASSWORD |-> ""] : f \in {"absent", "nonames"}}
    \cup [file : {"ok"}, USER : {"", "u"}, PASSWORD : {"", "p"}]

\* the template the script writes (line 18)
Template == [file |-> "ok", USER |-> "", PASSWORD |-> ""]

\* login pages: a token, two tokens, a token without closing quote, a token cut by
\* a newline, no token
LoginPages ==
    { <<"=", "\"", "L", "T", "-", "7", "\"", ">">>,
      <<"\"", "L", "T", "-", "7", "\"", " ", "\"", "L", "T", "-", "8", "\"">>,
      <<"\"", "L", "T", "-", "7">>,
      <<"\"", "L", "T", "-", "\n", "7", "\"">>,
      <<"<", "p", ">">> }

Anchor(text, href) == [text |-> text, href |-> href]

\* portal pages as their anchors (href "none": an anchor without href)
PortalPages ==
    { <<>>,
      <<Anchor("Abmelden", "/logout")>>,
      <<Anchor(" Notenspiegel ", "/padded")>>,
      <<Anchor("Notenspiegel", "none")>>,
      <<Anchor("Abmelden", "/logout"), Anchor("Notenspiegel", "/notenspiegel")>>,
      <<Anchor("Notenspiegel", "none"), Anchor("Notenspiegel", "/notenspiegel"),
        Anchor("Notenspiegel", "/second")>> }

\* header rows of the results page: the five columns, the five reordered and with
\* whitespace around the labels, a sixth column, Status missing, no header at all
Headers ==
    { <<PRUEFUNGSNAME, SEMESTER, NOTE, STATUS, ECTS>>,
      <<<<"\n">> \o STATUS \o <<" ">>, ECTS \o <<"nbsp">>, <<" ">> \o SEMESTER, NOTE,
        PRUEFUNGSNAME>>,
      <<SEMESTER, PRUEFUNGSNAME, NOTE, ECTS, STATUS, VERMERK>>,
      <<SEMESTER, PRUEFUNGSNAME, NOTE, ECTS>>,
      <<>> }

\* an exam as the portal lists it: the text of its Note, ECTS and Status cells
Exam(note, ects, status) == [note |-> note, ects |-> ects, status |-> status]

\* the exams of the model: passed and failed ones with grades 2,0 and 4,0 and 3
\* or 6 credits; an exam not yet graded; one whose credits cell holds plain text;
\* one with a two-digit credit value; a graded one with an empty Status cell
Exams ==
    {Exam(note, EctsCell(n), status) :
        note \in { <<"2", ",", "0">>, <<" ", "4", ",", "0">> },
        n \in {3, 6},
        status \in {BESTANDEN, NICHT_BESTANDEN \o <<"nbsp">>}}
    \cup { Exam(<<>>, EctsCell(6), <<"nbsp">>),
           Exam(<<"2", ",", "0">>, <<"6">>, BESTANDEN),
           Exam(<<"2", ",", "0">>, EctsCell(10), BESTANDEN),
           Exam(<<"4", ",", "0">>, EctsCell(6), <<>>) }

\* the cell of exam e, listed as row r, in a column labelled label
CellFor(label, e, r) ==
    CASE label = SEMESTER      -> <<"H", "W", "S", "nbsp", "1", "7", " ">>
      [] label = PRUEFUNGSNAME -> <<"E", "x", "a", "m", "nbsp">> \o Decimal(r)
      [] label = NOTE          -> e.note
      [] label = ECTS          -> e.ects
      [] label = STATUS        -> e.status
      [] OTHER                 -> <<"nbsp">>

\* the rows of a table with header th, as row r
RowsFor(th, r) == {[i \in 1..Len(th) |-> CellFor(Strip(th[i]), e, r)] : e \in Exams}

\* the flat cell sequences of k full rows
RECURSIVE FullCells(_, _)
FullCells(th, k) ==
    IF k = 0 THEN { <<>> }
    ELSE {c \o row : c \in FullCells(th, k - 1), row \in RowsFor(th, k)}

\* a results page: the header th, and of the flat cells of full rows all but the
\* last cut cells
Page(th, full, cut) == [th |-> th, td |-> SubSeq(full, 1, Len(full) - cut)]

----------------------------------------------------------------------------
\* The run.

CAS_URL == "https://cas.uni-mannheim.de/cas/login"

QIS_URL == "https://portal.uni-mannheim.de/qisserver/rds?"

Pipeline == <<"login page GET", "login form POST", "portal GET", "results page GET",
              "record extraction", "GPA computation", "output">>

NoResponse == [kind |-> "none"]

NoGpa == [num |-> 0, den |-> 0]

Init ==
    /\ secrets \in SecretsFiles
    /\ prev = "other"
    /\ pc = "import"
    /\ net = <<>>
    /\ steps = <<>>
    /\ response = NoResponse
    /\ lt = <<>>
    /\ res_link = "none"
    /\ results = <<>>
    /\ gpa = NoGpa
    /\ out = <<>>
    /\ exitcode = -1
    /\ exc = "none"
    /\ hdrs = <<>>
    /\ cells = <<>>
    /\ perm = <<>>
    /\ plain = Raise("not run")
    /\ permuted = Raise("not run")

\* sys.exit(1) after printing line
Exit1(line) ==
    /\ out' = Append(out, line)
    /\ exitcode' = 1
    /\ pc' = "exited"

\* an uncaught exception: the traceback goes to stderr, the status is 1
Crash(e) ==
    /\ exc' = e
    /\ exitcode' = 1
    /\ pc' = "crashed"

\* (a variant of the import that tests USER alone)
ImportUserOnly ==
    /\ pc = "import"
    /\ \/ /\ secrets.file \in {"absent", "nonames"}
          /\ secrets' = Template
          /\ Exit1([fmt |-> "diagnostic", text |-> "File secrets.py was missing and thus created."])
          /\ UNCHANGED <<prev, net, steps, response, lt, res_link, results, gpa, exc>>
       \/ /\ secrets.file = "ok"
          /\ secrets.USER = ""
          /\ Exit1([fmt |-> "diagnostic", text |-> "Please maintain your credentials."])
          /\ UNCHANGED <<secrets, prev, net, steps, response, lt, res_link, results, gpa, exc>>
       \/ /\ secrets.file = "ok"
          /\ secrets.USER # ""
          /\ pc' = "login"
          /\ UNCHANGED <<secrets, prev, net, steps, response, lt, res_link, results, gpa,
                         out, exitcode, exc>>
    /\ UNCHANGED permVars

\* lines 10-20: the import of USER and PASSWORD
Import ==
    /\ pc = "import"
    /\ \/ /\ secrets.file \in {"absent", "nonames"}
          /\ secrets' = Template
          /\ Exit1([fmt |-> "diagnostic", text |-> "File secrets.py was missing and thus created."])
          /\ UNCHANGED <<prev, net, steps, response, lt, res_link, results, gpa, exc>>
       \/ /\ secrets.file = "ok"
          /\ secrets.USER = "" \/ secrets.PASSWORD = ""
          /\ Exit1([fmt |-> "diagnostic", text |-> "Please maintain your credentials."])
          /\ UNCHANGED <<secrets, prev, net, steps, response, lt, res_link, results, gpa, exc>>
       \/ /\ secrets.file = "ok"
          /\ secrets.USER # "" /\ secrets.PASSWORD # ""
          /\ pc' = "login"
          /\ UNCHANGED <<secrets, prev, net, steps, response, lt, res_link, results, gpa,
                         out, exitcode, exc>>
    /\ UNCHANGED permVars

\* (a variant of login that fetches the login page again when it holds no token)
LoginGetRetry ==
    /\ pc = "login"
    /\ net' = Append(net, [method |-> "GET", url |-> CAS_URL])
    /\ steps' = Append(steps, "login page GET")
    /\ \/ /\ Crash("ConnectionError")
          /\ UNCHANGED <<response, lt>>
       \/ \E page \in LoginPages :
            /\ response' = [kind |-> "login", text |-> page]
            /\ IF findall(page) = <<>>
               THEN pc' = "login" /\ UNCHANGED <<lt, exitcode, exc>>
               ELSE lt' = findall(page)[1] /\ pc' = "post" /\ UNCHANGED <<exitcode, exc>>
    /\ UNCHANGED <<secrets, prev, res_link, results, gpa, out>>
    /\ UNCHANGED permVars

\* login(), lines 75-76: the login page and its token
LoginGet ==
    /\ pc = "login"
    /\ net' = Append(net, [method |-> "GET", url |-> CAS_URL])
    /\ steps' = Append(steps, "login page GET")
    /\ \/ /\ Crash("ConnectionError")
          /\ UNCHANGED <<response, lt>>
       \/ \E page \in LoginPages :
            /\ response' = [kind |-> "login", text |-> page]
            /\ IF findall(page) = <<>>
               THEN Crash("IndexError") /\ UNCHANGED lt
               ELSE lt' = findall(page)[1] /\ pc' = "post" /\ UNCHANGED <<exitcode, exc>>
    /\ UNCHANGED <<secrets, prev, res_link, results, gpa, out>>
    /\ UNCHANGED permVars

\* login(), lines 77-85: the login form
LoginPost ==
    /\ pc = "post"
    /\ net' = Append(net, [method |-> "POST", url |-> CAS_URL, username |-> secrets.USER,
                           password |-> secrets.PASSWORD, lt |-> lt])
    /\ steps' = Append(steps, "login form POST")
    /\ \/ Crash("ConnectionError")
       \/ pc' = "portal" /\ UNCHANGED <<exitcode, exc>>
    /\ UNCHANGED <<secrets, prev, response, lt, res_link, results, gpa, out>>
    /\ UNCHANGED permVars

\* parse_results(), lines 89-101: the portal page and the results link
PortalGet ==
    /\ pc = "portal"
    /\ net' = Append(net, [method |-> "GET", url |-> QIS_URL])
    /\ steps' = Append(steps, "portal GET")
    /\ \/ /\ Crash("ConnectionError")
          /\ UNCHANGED <<response, res_link, out>>
       \/ \E page \in PortalPages :
            /\ response' = [kind |-> "portal", anchors |-> page]
            /\ IF find(page) = None
               THEN /\ Exit1([fmt |-> "diagnostic", text |-> "A TypeError occurred"])
                    /\ UNCHANGED <<res_link, exc>>
               ELSE /\ res_link' = find(page).href
                    /\ pc' = "results"
                    /\ UNCHANGED <<out, exitcode, exc>>
    /\ UNCHANGED <<secrets, prev, lt, results, gpa>>
    /\ UNCHANGED permVars

\* parse_results(), lines 103-126: the results page and the records
ResultsGet ==
    /\ pc = "results"
    /\ net' = Append(net, [method |-> "GET", url |-> res_link])
    /\ \/ /\ Crash("ConnectionError")
          /\ steps' = Append(steps, "results page GET")
          /\ UNCHANGED <<response, results>>
       \/ \E th \in Headers, k \in 0..MaxRows, cut \in {0, 1} :
          \E page \in {Page(th, full, cut) : full \in {c \in FullCells(th, k) : Len(c) >= cut}} :
            /\ response' = [kind |-> "results", th |-> page.th, td |-> page.td]
            /\ steps' = steps \o <<"results page GET", "record extraction">>
            /\ LET r == Extract(page.th, page.td)
               IN  IF r.ok
                   THEN results' = r.val /\ pc' = "gpa" /\ UNCHANGED <<exitcode, exc>>
                   ELSE Crash(r.exc) /\ UNCHANGED results
    /\ UNCHANGED <<secrets, prev, lt, res_link, gpa, out>>
    /\ UNCHANGED permVars

\* run(), lines 68-69: the GPA
CalcGpa ==
    /\ pc = "gpa"
    /\ steps' = Append(steps, "GPA computation")
    /\ LET g == calc_gpa(results)
       IN  IF g.ok
           THEN gpa' = g.val /\ pc' = "print" /\ UNCHANGED <<exitcode, exc>>
           ELSE Crash(g.exc) /\ UNCHANGED gpa
    /\ UNCHANGED <<secrets, prev, net, response, lt, res_link, results, out>>
    /\ UNCHANGED permVars

\* run(), lines 70-71: the GPA line, its underline and the records
Output ==
    /\ pc = "print"
    /\ steps' = Append(steps, "output")
    /\ out' = out \o <<[fmt |-> "gpa", gpa |-> gpa], [fmt |-> "underline"]>>
                  \o print_exams(results)
    /\ exitcode' = 0
    /\ pc' = "done"
    /\ UNCHANGED <<secrets, prev, net, response, lt, res_link, results, gpa, exc>>
    /\ UNCHANGED permVars

\* the script is started again; secrets.py is as the last run left it
StartRun ==
    /\ pc \in {"done", "exited", "crashed"}
    /\ prev' = IF pc = "exited" /\ out[1].text = "File secrets.py was missing and thus created."
               THEN "bootstrap" ELSE "other"
    /\ pc' = "import"
    /\ net' = <<>>
    /\ steps' = <<>>
    /\ response' = NoResponse
    /\ lt' = <<>>
    /\ res_link' = "none"
    /\ results' = <<>>
    /\ gpa' = NoGpa
    /\ out' = <<>>
    /\ exitcode' = -1
    /\ exc' = "none"
    /\ UNCHANGED secrets
    /\ UNCHANGED permVars

Next ==
    \/ Import
    \/ LoginGet
    \/ LoginPost
    \/ PortalGet
    \/ ResultsGet
    \/ CalcGpa
    \/ Output
    \/ StartRun

Spec == Init /\ [][Next]_vars

----------------------------------------------------------------------------
\* The permutation check of parse_results: the extraction applied to a table and
\* to the same table with its columns permuted.

\* a header row in which the Note column occurs twice
TwoNotes == <<SEMESTER, PRUEFUNGSNAME, NOTE, ECTS, STATUS, NOTE>>

PermHeaders ==
    {th \in Headers : Len(th) \in {0, 4, 5}} \cup {TwoNotes}

PermExams ==
    { Exam(<<"2", ",", "0">>, EctsCell(6), BESTANDEN),
      Exam(<<"4", ",", "0">>, EctsCell(3), NICHT_BESTANDEN) }

\* whether column i of th is the first one with its label
FirstOfLabel(th, i) == \A j \in 1..(i - 1) : Strip(th[j]) # Strip(th[i])

\* the rows of the permutation check: a repeated column holds the cell of a
\* second exam f
PermRowsFor(th, r) ==
    {[i \in 1..Len(th) |->
        CellFor(Strip(th[i]), IF FirstOfLabel(th, i) THEN e ELSE f, r)] :
        e \in PermExams, f \in PermExams}

RECURSIVE PermCells(_, _)
PermCells(th, k) ==
    IF k = 0 THEN { <<>> }
    ELSE {c \o row : c \in PermCells(th, k - 1), row \in PermRowsFor(th, k)}

\* the permutations of 1..n
Perms(n) ==
    {p \in [1..n -> 1..n] : \A i \in 1..n : \A j \in 1..n : p[i] = p[j] => i = j}

\* p applied to the header row
PermuteHeaders(th, p) == [i \in 1..Len(th) |-> th[p[i]]]

\* p applied to the cells of every row of the flat sequence td
PermuteRows(td, p) ==
    [j \in 1..Len(td) |->
        td[((j - 1) \div Len(p)) * Len(p) + p[((j - 1) % Len(p)) + 1]]]

InitPerm ==
    /\ secrets = [file |-> "ok", USER |-> "u", PASSWORD |-> "p"]
    /\ prev = "other"
    /\ pc = "permute"
    /\ net = <<>>
    /\ steps = <<>>
    /\ response = NoResponse
    /\ lt = <<>>
    /\ res_link = "none"
    /\ results = <<>>
    /\ gpa = NoGpa
    /\ out = <<>>
    /\ exitcode = -1
    /\ exc = "none"
    /\ hdrs \in PermHeaders
    /\ \E k \in 0..MaxPermRows : cells \in PermCells(hdrs, k)
    /\ perm \in Perms(Len(hdrs))
    /\ plain = Raise("not run")
    /\ permuted = Raise("not run")

\* parse_results, lines 106-126, on the table and on the permuted table
ApplyExtract ==
    /\ pc = "permute"
    /\ plain' = Extract(hdrs, cells)
    /\ permuted' = Extract(PermuteHeaders(hdrs, perm), PermuteRows(cells, perm))
    /\ pc' = "permuted"
    /\ UNCHANGED <<secrets, prev, net, steps, response, lt, res_link, results, gpa,
                   out, exitcode, exc, hdrs, cells, perm>>

NextPerm == ApplyExtract

SpecPerm == InitPerm /\ [][NextPerm]_vars

----------------------------------------------------------------------------
\* Properties.

\* the run has fetched a results page
HasTable == response.kind = "results"

\* the header labels as parse_results reads them
Labels == [i \in 1..Len(response.th) |-> Strip(response.th[i])]

Width == Len(response.th)

\* the first column labelled label, 0 if there is none
Col(label) ==
    IF \E i \in 1..Width : Labels[i] = label
    THEN CHOOSE i \in 1..Width : Labels[i] = label /\ \A j \in 1..(i - 1) : Labels[j] # label
    ELSE 0

HasFiveLabels ==
    \A label \in {SEMESTER, PRUEFUNGSNAME, NOTE, ECTS, STATUS} : Col(label) > 0

\* the data cells are k full rows
FullRows == Width > 0 /\ Len(response.td) % Width = 0

RowCount == Len(response.td) \div Width

\* the text of row i's cell in the column labelled label
CellOf(i, label) == strip(response.td[(i - 1) * Width + Col(label)])

GradeOk(i) == IsFloat(Replace(CellOf(i, NOTE), ",", "."))

CreditOk(i) == int(parse_ects(CellOf(i, ECTS))).ok

\* parse_results has returned its list (the run is past the extraction)
Returned ==
    \/ pc \in {"gpa", "print", "done"}
    \/ pc = "crashed" /\ exc = "ZeroDivisionError"

\* C1: for a header row with the five labels and k full rows of cells whose grade
\* and credit cells are well-formed, parse_results returns exactly k records, the
\* i-th built from the cells of the i-th group of Width cells, in document order.
C1_OneRecordPerRow ==
    (HasTable /\ HasFiveLabels /\ FullRows /\ \A i \in 1..RowCount : GradeOk(i) /\ CreditOk(i))
    => /\ Returned
       /\ Len(results) = RowCount
       /\ \A i \in 1..RowCount :
            /\ results[i].semester = CellOf(i, SEMESTER)
            /\ results[i].exam = CellOf(i, PRUEFUNGSNAME)
            /\ results[i].grade = Float(Replace(CellOf(i, NOTE), ",", "."))
            /\ results[i].ects = int(parse_ects(CellOf(i, ECTS))).val
            /\ results[i].passed = CellOf(i, STATUS)

C1_Witness ==
    /\ HasTable /\ HasFiveLabels /\ FullRows
    /\ Width = 6
    /\ RowCount = MaxRows
    /\ pc = "gpa"
    /\ Len(results) = MaxRows
    /\ results[1].grade # results[MaxRows].grade

\* the two extraction outcomes of the permutation check agree
SameOutcome ==
    /\ plain.ok = permuted.ok
    /\ plain.ok => plain.val = permuted.val
    /\ ~plain.ok => plain.exc = permuted.exc

\* no label the extraction looks up heads two columns
LookedUpOnce ==
    \A label \in {SEMESTER, PRUEFUNGSNAME, NOTE, ECTS, STATUS} :
        \A i \in 1..Len(hdrs) : \A j \in 1..Len(hdrs) :
            (Strip(hdrs[i]) = label /\ Strip(hdrs[j]) = label) => i = j

\* C2 as stated: for any permutation p of the header row, the permuted table
\* yields the same records in the same order as the table itself.
C2_AnyHeaderRow == pc = "permuted" => SameOutcome

\* C2 amended: the same, for header rows in which none of the five labels heads
\* more than one column.
C2_PositionIndependent == (pc = "permuted" /\ LookedUpOnce) => SameOutcome

C2_Witness ==
    /\ pc = "permuted"
    /\ LookedUpOnce
    /\ PermuteHeaders(hdrs, perm) # hdrs
    /\ plain.ok
    /\ Len(plain.val) = MaxPermRows
    /\ plain.val[1].grade # plain.val[MaxPermRows].grade

\* the Status cell of record res denotes a passed exam
DenotesPassed(res) == res.passed = BESTANDEN

RECURSIVE PassedGradeSum(_)
PassedGradeSum(rs) ==
    IF rs = <<>> THEN 0
    ELSE (IF DenotesPassed(Head(rs)) THEN Head(rs).grade * Head(rs).ects ELSE 0)
         + PassedGradeSum(Tail(rs))

RECURSIVE PassedEctsSum(_)
PassedEctsSum(rs) ==
    IF rs = <<>> THEN 0
    ELSE (IF DenotesPassed(Head(rs)) THEN Head(rs).ects ELSE 0) + PassedEctsSum(Tail(rs))

\* C3: the value calc_gpa returns is the sum of grade x credits over the sum of
\* credits, both taken over the passed records only.
C3_PassedOnly ==
    pc \in {"print", "done"}
    => /\ gpa.num = PassedGradeSum(results)
       /\ gpa.den = PassedEctsSum(results)

\* C4: a credits cell that follows the template with X = n.0 is decoded to n.
C4_DecodesCredit ==
    (HasTable /\ HasFiveLabels /\ FullRows /\ Returned)
    => \A i \in 1..Len(results) : \A n \in 0..MaxCredit :
          CellOf(i, ECTS) = EctsCell(n) => results[i].ects = n

\* C5: every record whose Status denotes a passed exam is printed in the passed
\* format, every other record as 'Not yet passed: <exam>'.
C5_Rendering ==
    pc = "done"
    => \A i \in 1..Len(results) :
          out[2 + i].fmt = IF DenotesPassed(results[i]) THEN "passed" ELSE "not yet passed"

\* the credentials file yields no USER and PASSWORD to log in with
NoCredentials == secrets.file # "ok" \/ secrets.USER = "" \/ secrets.PASSWORD = ""

Created == [fmt |-> "diagnostic", text |-> "File secrets.py was missing and thus created."]

\* Without credentials the run exits with status 1 before any request; a
\* missing file is created as the template, and the run after that one exits the
\* same way.
C6_Invariant ==
    /\ NoCredentials => /\ net = <<>>
                        /\ pc = "import" \/ (pc = "exited" /\ exitcode = 1)
    /\ secrets.file = "absent" => pc = "import"
    /\ (pc = "exited" /\ out = <<Created>>) => secrets = Template
    /\ prev = "bootstrap" => (NoCredentials /\ secrets = Template)

C6_Step ==
    (pc = "import" /\ NoCredentials /\ pc' # pc)
    => /\ pc' = "exited" /\ exitcode' = 1 /\ net' = <<>>
       /\ secrets.file = "absent" => (secrets' = Template /\ out' = <<Created>>)
       /\ secrets.file = "ok" => secrets' = secrets

\* C6: C6_Invariant holds in every state and every step from the import without
\* credentials is the exit with status 1, no request issued.
C6_NoCredentialsNoRequest == []C6_Invariant /\ [][C6_Step]_vars

C6_Witness ==
    /\ prev = "bootstrap"
    /\ pc = "exited"
    /\ exitcode = 1
    /\ net = <<>>

\* the portal page has no anchor whose text is exactly 'Notenspiegel'
NoResultsAnchor ==
    /\ response.kind = "portal"
    /\ \A i \in 1..Len(response.anchors) : response.anchors[i].text # "Notenspiegel"

\* C7: without such an anchor the run prints a diagnostic and exits with status 1;
\* the results page is never requested and neither a GPA line nor a record line
\* is printed.
C7_NoAnchorExits ==
    NoResultsAnchor
    => /\ pc = "exited"
       /\ exitcode = 1
       /\ Len(out) = 1 /\ out[1].fmt = "diagnostic"
       /\ Len(net) = 3
       /\ \A i \in 1..Len(net) : net[i].url \in {CAS_URL, QIS_URL}

C7_Witness ==
    /\ NoResultsAnchor
    /\ Len(response.anchors) > 0
    /\ pc = "exited"

\* C8: when the number of data cells is no multiple of the header count,
\* parse_results returns no list.
C8_RaggedIsError ==
    (HasTable /\ Width > 0 /\ Len(response.td) % Width # 0) => ~Returned

\* C9: when no record of the list is a passed one, calc_gpa raises
\* ZeroDivisionError and the run prints nothing.
C9_NoPassedRecord ==
    (pc \in {"print", "done", "crashed"} /\ HasTable /\ Returned
        /\ \A i \in 1..Len(results) : ~DenotesPassed(results[i]))
    => (pc = "crashed" /\ exc = "ZeroDivisionError" /\ out = <<>>)

IsPrefix(a, b) == Len(a) <= Len(b) /\ \A i \in 1..Len(a) : a[i] = b[i]

\* the login page holds no 'LT-'
NoToken ==
    /\ response.kind = "login"
    /\ \A i \in 1..Len(response.text) :
          ~(i + 2 <= Len(response.text) /\ response.text[i] = "L"
            /\ response.text[i + 1] = "T" /\ response.text[i + 2] = "-")

\* a full row of the results page has a grade or credit cell that is not
\* well-formed
MalformedCell ==
    /\ HasTable /\ HasFiveLabels /\ FullRows
    /\ \E i \in 1..RowCount : ~GradeOk(i) \/ ~CreditOk(i)

\* the requests of a run, in order
Requests == <<[method |-> "GET", url |-> CAS_URL], [method |-> "POST", url |-> CAS_URL],
              [method |-> "GET", url |-> QIS_URL], [method |-> "GET", url |-> res_link]>>

\* The steps of a run happen at most once each and in the pipeline's order; a
\* failure ends the run: without a token nothing is posted and the portal is not
\* requested, a malformed grade or credit cell means nothing is printed.
C10_Invariant ==
    /\ IsPrefix(steps, Pipeline)
    /\ Len(net) <= 4
    /\ \A i \in 1..Len(net) : net[i].method = Requests[i].method /\ net[i].url = Requests[i].url
    /\ Len(net) = Len(SelectSeq(steps, LAMBDA x : x \in {"login page GET", "login form POST",
                                                        "portal GET", "results page GET"}))
    /\ pc \in {"crashed", "exited"} => \A i \in 1..Len(out) : out[i].fmt = "diagnostic"
    /\ pc = "crashed" => out = <<>>
    /\ out # <<>> => pc \in {"exited", "done"}
    /\ NoToken => (pc = "crashed" /\ exc = "IndexError" /\ steps = <<"login page GET">>
                   /\ Len(net) = 1)
    /\ MalformedCell => (pc = "crashed" /\ exc \in {"ValueError", "IndexError"} /\ out = <<>>
                         /\ steps = SubSeq(Pipeline, 1, 5))

\* a run that has ended takes no further step: what follows is a new run
C10_Step ==
    pc \in {"crashed", "exited", "done"}
    => (pc' = "import" /\ net' = <<>> /\ steps' = <<>> /\ out' = <<>>)

\* C10: every run takes the pipeline's steps at most once each and in order, a
\* failure at any step ends it (C10_Invariant: no token, no POST and no portal
\* request; a malformed grade or credit cell, no output), and an ended run takes
\* no further step.
C10_PipelineOnce == []C10_Invariant /\ [][C10_Step]_vars

C10_Witness ==
    /\ MalformedCell
    /\ GradeOk(1) /\ CreditOk(1)
    /\ pc = "crashed"
    /\ out = <<>>

====
